---- MODULE Spec2Model ----
(***************************************************************************)
(* The tool-calling agent loop of the AI Tactician backend                 *)
(* (backend/agent.py), the tool dispatch it calls (backend/tools.py,       *)
(* backend/mock_api.py) and the stream adapter that relays its events as   *)
(* wire records (backend/main.py).                                         *)
(*                                                                         *)
(* run_agent_stream is a generator: it runs only while its consumer asks   *)
(* for the next event, and is suspended at every yield.  _stream_response  *)
(* is a generator too, suspended at every wire record it yields.  The      *)
(* variable pc is the place where the two are standing.                    *)
(***************************************************************************)
EXTENDS Integers, Sequences, FiniteSets, TLC

VARIABLES
    messages,      \* agent.py: the list `messages` run_agent_stream mutates
    messages0,     \* the list as chat() built it, before the run
    response,      \* agent.py: `response` of the current round (content, stop_reason)
    has_tool_use,  \* agent.py: `has_tool_use`
    idx,           \* position of the for loop over response.content (1-based)
    result,        \* agent.py: `result` of the last handle_tool_call
    events,        \* the events run_agent_stream has yielded so far
    wire,          \* the records _stream_response has yielded so far
    pc,            \* where run_agent_stream / _stream_response stand
    abandoned,     \* the consumer of the wire stream has stopped reading
    round,         \* number of client.messages.create calls made
    uuid,          \* number of uuid.uuid4() values drawn so far
    budget,        \* blocks the backend may still return (bounds the model)
    calls,         \* log: the conversation passed to each model call
    rounds,        \* log: every response returned, with the number of events
                   \*      yielded before it
    dispatched,    \* log: every handle_tool_call made: round, idx, name, outcome
    conversations, \* main.py: the module-level dict `_conversations`
    other,         \* the message list of a request processed at the same time
    mock_data,     \* mock_data/campaign_history.json: the campaigns on disk
    dlog,          \* log of the dispatches made outside the loop: name, input,
                   \*      outcome
    conversation_history, \* run_agent_sync: the caller's list
    user_message,  \* run_agent_sync: the text of the new user message
    text_parts,    \* run_agent_sync: the contents collected so far
    collected,     \* run_agent_sync: events the collector has been through
    returned       \* run_agent_sync: what the call gave back to its caller

\* what the agent loop of one request neither reads nor writes
env == <<conversations, other, dlog, user_message, text_parts, collected,
         returned>>

vars == <<messages, messages0, response, has_tool_use, idx, result, events,
          wire, pc, abandoned, round, uuid, budget, calls,
          rounds, dispatched, conversations, other, mock_data, dlog,
          conversation_history, user_message, text_parts, collected, returned>>

(***************************************************************************)
(* Bounds of the model.                                                    *)
(***************************************************************************)
MaxBlocks == 4      \* content blocks the backend returns in one run, all rounds
MaxHistory == 2     \* messages of the request body
MaxDispatches == 3  \* dispatches made outside the loop
MaxOtherCalls == 2  \* tool calls of the request processed at the same time

(***************************************************************************)
(* Python outcomes: a call either returns a value or raises.               *)
(***************************************************************************)
Returned(v) == [kind |-> "return", value |-> v]
Raised(e) == [kind |-> "raise", exc |-> e]

EmptyInput == [k \in {} |-> 0]

Has(input, key) == key \in DOMAIN input

\* dict.get(key, default)
Get(input, key, default) == IF Has(input, key) THEN input[key] ELSE default

(***************************************************************************)
(* mock_api.py.  The JSON files of mock_data are fixed documents; each is  *)
(* modelled by a record naming it.                                         *)
(***************************************************************************)
NumCampaigns == 12

Min(a, b) == IF a < b THEN a ELSE b
Max(a, b) == IF a > b THEN a ELSE b

\* Python's seq[:limit]
SlicePrefix(seq, limit) ==
    IF limit >= 0 THEN SubSeq(seq, 1, Min(limit, Len(seq)))
    ELSE SubSeq(seq, 1, Max(Len(seq) + limit, 0))

\* a variant of MockDataAfter for a _load that keeps the parsed file: the
\* truncation of get_campaign_history then stays
MockDataAfterCachedLoad(tool_name, _input, data) ==
    IF tool_name = "get_campaign_history"
    THEN SlicePrefix(data, Get(_input, "limit", 10))
    ELSE data

\* _load parses the file again on every call: what a handler does to the
\* parsed document (mock_api.py 43) does not reach the next call
MockDataAfter(tool_name, _input, data) == data

get_account_context == [file |-> "account_context.json"]

get_campaign_history(limit) ==
    [file |-> "campaign_history.json",
     campaigns |-> SlicePrefix(mock_data, limit)]

get_active_automations == [file |-> "automations.json"]

\* a variant of segment_contacts that also looks at the segmentation axis
segment_contacts_by_axis(base_filter, segmentation_axis) ==
    LET filter_type == Get(base_filter, "type", "all_subscribers")
    IN IF filter_type = "no_purchase" /\ segmentation_axis = "ltv"
       THEN [file |-> "segmentation.json", key |-> "no_purchase_90d"]
       ELSE [file |-> "segmentation.json", key |-> "all_customers"]

segment_contacts(base_filter, segmentation_axis) ==
    LET filter_type == Get(base_filter, "type", "all_subscribers")
    IN IF filter_type = "no_purchase"
       THEN [file |-> "segmentation.json", key |-> "no_purchase_90d"]
       ELSE [file |-> "segmentation.json", key |-> "all_customers"]

CampaignDraftParams ==
    {"name", "channel", "cohort", "audience_size", "content", "schedule"}

\* fresh stands for the uuid4 the call draws; now() is not modelled
create_campaign_draft(input, fresh) ==
    IF CampaignDraftParams \subseteq DOMAIN input
    THEN Returned([draft_id |-> <<"draft_", fresh>>, status |-> "draft"])
    ELSE Raised("TypeError")

AutomationDraftParams ==
    {"name", "cohort", "trigger", "steps", "exit_conditions"}

NoneValue == [none |-> TRUE]

create_automation_draft(input, fresh) ==
    IF AutomationDraftParams \subseteq DOMAIN input
    THEN LET estimated ==
                 IF Has(input, "estimated_contacts_entering")
                 THEN input["estimated_contacts_entering"]
                 ELSE Get(Get(input["trigger"], "audience_filter", EmptyInput),
                          "size", NoneValue)
         IN Returned([workflow_id |-> <<"wf_draft_", fresh>>, status |-> "draft",
                      estimated_contacts_entering |-> estimated])
    ELSE Raised("TypeError")

get_campaign_performance(period) == [file |-> "performance.json"]

(***************************************************************************)
(* tools.py: _HANDLERS and handle_tool_call.                               *)
(***************************************************************************)
HandlerNames ==
    {"get_account_context", "get_campaign_history", "get_active_automations",
     "segment_contacts", "create_campaign_draft", "create_automation_draft",
     "get_campaign_performance"}

\* a variant of HistoryLimit that returns every campaign when no limit is given
HistoryLimitDefaultAll(_input) == Get(_input, "limit", Len(mock_data))

\* tools.py 247
HistoryLimit(_input) == Get(_input, "limit", 10)

\* tools.py 257
PerformancePeriod(_input) == Get(_input, "period", "last_30d")

Handler(tool_name, _input, fresh) ==
    CASE tool_name = "get_account_context" -> Returned(get_account_context)
      [] tool_name = "get_campaign_history" ->
            Returned(get_campaign_history(HistoryLimit(_input)))
      [] tool_name = "get_active_automations" -> Returned(get_active_automations)
      [] tool_name = "segment_contacts" ->
            IF Has(_input, "base_filter") /\ Has(_input, "segmentation_axis")
            THEN Returned(segment_contacts(_input["base_filter"],
                                           _input["segmentation_axis"]))
            ELSE Raised("KeyError")
      [] tool_name = "create_campaign_draft" -> create_campaign_draft(_input, fresh)
      [] tool_name = "create_automation_draft" ->
            create_automation_draft(_input, fresh)
      [] tool_name = "get_campaign_performance" ->
            Returned(get_campaign_performance(PerformancePeriod(_input)))

\* a variant of handle_tool_call that looks the handler up with _HANDLERS[name]
UnknownToolRaises(tool_name, tool_input, fresh) ==
    IF tool_name \notin HandlerNames
    THEN Raised("KeyError")
    ELSE Handler(tool_name, tool_input, fresh)

handle_tool_call(tool_name, tool_input, fresh) ==
    IF tool_name \notin HandlerNames
    THEN Returned([error |-> "Unknown tool: " \o tool_name])
    ELSE Handler(tool_name, tool_input, fresh)

\* whether the handler of this call draws a uuid4
DrawsUuid(tool_name) ==
    tool_name \in {"create_campaign_draft", "create_automation_draft"}

\* json.dumps: the text of a value, never the value itself
json_dumps(v) == [json |-> v]

(***************************************************************************)
(* Messages, content blocks and agent events.  A message's content is      *)
(* always written as a list of blocks: the text content of a request       *)
(* message is the one-Text-block list the backend reads it as.             *)
(***************************************************************************)
TextBlock(t) == [type |-> "text", text |-> t]
ToolUseBlock(id, name, input) ==
    [type |-> "tool_use", id |-> id, name |-> name, input |-> input]
ToolResultBlock(id, content) ==
    [type |-> "tool_result", tool_use_id |-> id, content |-> content]

Message(role, content) == [role |-> role, content |-> content]

TextDelta(content) == [type |-> "text_delta", content |-> content]
ToolCallStart(tool, input) ==
    [type |-> "tool_call_start", tool |-> tool, input |-> input]
ToolResult(tool, res) == [type |-> "tool_result", tool |-> tool, result |-> res]
MessageDone == [type |-> "message_done"]

(***************************************************************************)
(* main.py, chat(): the request body's messages, kept when their role is   *)
(* user or assistant.                                                      *)
(***************************************************************************)
BodyRoles == <<"user", "assistant", "system", "user">>

BodyMessage(i) ==
    Message(BodyRoles[((i - 1) % Len(BodyRoles)) + 1], <<TextBlock("m")>>)

RECURSIVE anthropic_messages(_)
anthropic_messages(body) ==
    IF body = <<>> THEN <<>>
    ELSE LET msg == Head(body)
         IN (IF msg.role \in {"user", "assistant"} THEN <<msg>> ELSE <<>>)
            \o anthropic_messages(Tail(body))

RequestBodies == {[i \in 1..n |-> BodyMessage(i)] : n \in 1..MaxHistory}

(***************************************************************************)
(* The model backend (client.messages.create): any response of at most     *)
(* maxlen blocks, each a text or a tool call, with any stop reason; or a   *)
(* failure.  Tool-use ids are the backend's, unique per block.             *)
(***************************************************************************)
\* line 172 only asks whether the stop reason is "end_turn": one other value
\* stands for all the rest ("tool_use", "max_tokens", "stop_sequence")
StopReasons == {"end_turn", "tool_use"}

BackendToolCalls ==
    {[name |-> "get_account_context", input |-> EmptyInput],
     [name |-> "segment_contacts", input |-> [segmentation_axis |-> "ltv"]],
     [name |-> "frobnicate", input |-> EmptyInput]}

BlockChoices == {[kind |-> "text"]} \cup
                {[kind |-> "tool", call |-> c] : c \in BackendToolCalls}

\* the backend's texts: one per place in the run, so that the order of the
\* texts of a run can be told
Letters == <<"a", "b", "c", "d", "e", "f", "g", "h">>

TextAt(r, i) ==
    Letters[((r - 1) % Len(Letters)) + 1] \o Letters[((i - 1) % Len(Letters)) + 1]

MakeBlock(choice, r, i) ==
    IF choice.kind = "text" THEN TextBlock(TextAt(r, i))
    ELSE ToolUseBlock(<<r, i>>, choice.call.name, choice.call.input)

Responses(r, maxlen) ==
    {[content |-> [i \in 1..n |-> MakeBlock(choices[i], r, i)], stop_reason |-> s] :
        <<n, choices, s>> \in
            UNION {{<<m, ch, sr>> : ch \in [1..m -> BlockChoices], sr \in StopReasons} :
                      m \in 0..maxlen}}

NoResponse == [content |-> <<>>, stop_reason |-> "none"]
NoResult == [none |-> TRUE]
NoReturn == [kind |-> "none"]

(***************************************************************************)
(* agent.py, run_agent_stream: the pieces of the loop body.                *)
(***************************************************************************)
\* a variant of ShouldStop with a ceiling on the number of rounds
ShouldStopWithCeiling(stop_reason, tool_use_seen) ==
    stop_reason = "end_turn" \/ ~tool_use_seen \/ round >= 2

\* a variant of ShouldStop that stops on natural completion only
ShouldStopOnEndTurnOnly(stop_reason, tool_use_seen) ==
    stop_reason = "end_turn"

\* line 172
ShouldStop(stop_reason, tool_use_seen) ==
    stop_reason = "end_turn" \/ ~tool_use_seen

\* a variant of LoopDone that leaves the loop after the first block
LoopDoneAfterFirst(i, content) == i > Len(content) \/ i > 1

\* the for loop of line 138 has no block left
LoopDone(i, content) == i > Len(content)

\* a variant of AppendedMessages that appends the assistant message once per
\* round and then only the tool-result messages
AppendedMessagesOncePerRound(msgs, content, block, res) ==
    LET tool_result ==
            Message("user", <<ToolResultBlock(block.id, json_dumps(res))>>)
    IN IF Len(msgs) >= 2 /\ msgs[Len(msgs) - 1] = Message("assistant", content)
       THEN Append(msgs, tool_result)
       ELSE msgs \o <<Message("assistant", content), tool_result>>

\* a variant of AppendedMessages that keeps only the newest entries
AppendedMessagesTrimmed(msgs, content, block, res) ==
    LET all == msgs \o <<Message("assistant", content),
                         Message("user", <<ToolResultBlock(block.id, json_dumps(res))>>)>>
    IN IF Len(all) > 4 THEN SubSeq(all, 3, Len(all)) ELSE all

\* a variant of AppendedMessages that appends the tool result first
AppendedMessagesResultFirst(msgs, content, block, res) ==
    msgs \o <<Message("user", <<ToolResultBlock(block.id, json_dumps(res))>>),
              Message("assistant", content)>>

\* lines 158-170
AppendedMessages(msgs, content, block, res) ==
    msgs \o <<Message("assistant", content),
              Message("user", <<ToolResultBlock(block.id, json_dumps(res))>>)>>

\* a variant of CallersListAfter for a run_agent_sync that runs the loop on the
\* caller's list itself
CallersListAliased(history, msgs) == msgs

\* agent.py 181: msgs is a new list, list(...), so what the loop appends to it
\* does not reach the list of the caller
CallersListAfter(history, msgs) == history

(***************************************************************************)
(* main.py, _stream_response: the wire records.                            *)
(***************************************************************************)
TextRecord(content) == [tag |-> "0", text |-> json_dumps(content)]
ToolCallRecord(id, event) ==
    [tag |-> "9", toolCallId |-> id, toolName |-> event.tool, args |-> event.input]
\* a variant of ToolResultRecord written with the tag of a tool call
ToolResultRecordTaggedAsCall(id, event) ==
    [tag |-> "9", toolCallId |-> id, toolName |-> event.tool, result |-> event.result]

ToolResultRecord(id, event) ==
    [tag |-> "a", toolCallId |-> id, toolName |-> event.tool, result |-> event.result]

\* lines 80-81
StopPair ==
    <<[tag |-> "e", finishReason |-> "stop"], [tag |-> "d", finishReason |-> "stop"]>>

\* lines 85-88
ErrorText(exc) == TextRecord("Error: " \o exc)
\* a variant of ErrorPair that reports a normal finish after a failure
ErrorPairBothStop ==
    <<[tag |-> "e", finishReason |-> "stop"], [tag |-> "d", finishReason |-> "stop"]>>

\* a variant of ErrorPair whose done record reports a normal finish
ErrorPairDoneStop ==
    <<[tag |-> "e", finishReason |-> "error"], [tag |-> "d", finishReason |-> "stop"]>>

ErrorPair ==
    <<[tag |-> "e", finishReason |-> "error"], [tag |-> "d", finishReason |-> "error"]>>

(***************************************************************************)
\* the message list chat() built for a request processed at the same time
OtherRequest == <<Message("user", <<TextBlock("o")>>)>>

(***************************************************************************)
(* The state after chat() has built the message list and handed            *)
(* _stream_response(anthropic_messages) to the transport.                  *)
(***************************************************************************)
Init ==
    /\ messages0 \in {anthropic_messages(b) : b \in RequestBodies}
    /\ messages = messages0
    /\ response = NoResponse
    /\ has_tool_use = FALSE
    /\ idx = 1
    /\ result = NoResult
    /\ events = <<>>
    /\ wire = <<>>
    /\ pc = "call_model"
    /\ abandoned = FALSE
    /\ round = 0
    /\ uuid = 0
    /\ budget = MaxBlocks
    /\ calls = <<>>
    /\ rounds = <<>>
    /\ dispatched = <<>>
    /\ conversations = [id \in {} |-> <<>>]
    /\ other = OtherRequest
    /\ mock_data = [i \in 1..NumCampaigns |-> i]
    /\ dlog = <<>>
    /\ conversation_history = <<>>
    /\ user_message = ""
    /\ text_parts = <<>>
    /\ collected = 0
    /\ returned = NoReturn

CurrentBlock == response.content[idx]

\* agent.py 128-136: the model call returns
ModelReturns ==
    /\ pc = "call_model" /\ ~abandoned
    /\ \E resp \in Responses(round + 1, budget) :
          /\ response' = resp
          /\ budget' = budget - Len(resp.content)
          /\ has_tool_use' = FALSE
          /\ idx' = 1
          /\ round' = round + 1
          /\ calls' = Append(calls, messages)
          /\ rounds' = Append(rounds, [content |-> resp.content,
                                       stop_reason |-> resp.stop_reason,
                                       before |-> Len(events)])
          /\ pc' = "block"
    /\ UNCHANGED <<env, conversation_history, mock_data, messages, messages0, result, events, wire, abandoned, uuid,
                   dispatched>>

\* agent.py 128 raises; main.py 83-86 catches and writes the error text
ModelRaises ==
    /\ pc = "call_model" /\ ~abandoned
    /\ round' = round + 1
    /\ calls' = Append(calls, messages)
    /\ wire' = Append(wire, ErrorText("BackendError"))
    /\ pc' = "err_0"
    /\ UNCHANGED <<env, conversation_history, mock_data, rounds, budget, messages, messages0, response, has_tool_use, idx, result,
                   events, abandoned, uuid, dispatched>>

\* agent.py 139-140, main.py 53-58
EmitText ==
    /\ pc = "block" /\ ~abandoned /\ ~LoopDone(idx, response.content)
    /\ CurrentBlock.type = "text"
    /\ events' = Append(events, TextDelta(CurrentBlock.text))
    /\ wire' = Append(wire, TextRecord(CurrentBlock.text))
    /\ pc' = "yield_text"
    /\ UNCHANGED <<env, conversation_history, mock_data, rounds, budget, messages, messages0, response, has_tool_use, idx, result,
                   abandoned, round, uuid, calls, dispatched>>

\* the consumer asks for the next event after a text_delta
ResumeText ==
    /\ pc = "yield_text" /\ ~abandoned
    /\ idx' = idx + 1
    /\ pc' = "block"
    /\ UNCHANGED <<env, conversation_history, mock_data, rounds, budget, messages, messages0, response, has_tool_use, result, events,
                   wire, abandoned, round, uuid, calls, dispatched>>

\* agent.py 141-147, main.py 60-67
EmitToolCallStart ==
    /\ pc = "block" /\ ~abandoned /\ ~LoopDone(idx, response.content)
    /\ CurrentBlock.type = "tool_use"
    /\ has_tool_use' = TRUE
    /\ LET ev == ToolCallStart(CurrentBlock.name, CurrentBlock.input)
       IN /\ events' = Append(events, ev)
          /\ wire' = Append(wire, ToolCallRecord(uuid + 1, ev))
    /\ uuid' = uuid + 1
    /\ pc' = "yield_start"
    /\ UNCHANGED <<env, conversation_history, mock_data, rounds, budget, messages, messages0, response, idx, result, abandoned, round,
                   calls, dispatched>>

DispatchOutcome == handle_tool_call(CurrentBlock.name, CurrentBlock.input, uuid + 1)

UuidsDrawn == IF DrawsUuid(CurrentBlock.name) THEN 1 ELSE 0

\* a variant of DispatchReturns for a loop that runs ahead of its consumer
DispatchReturnsUnread ==
    /\ pc = "yield_start"
    /\ DispatchOutcome.kind = "return"
    /\ result' = DispatchOutcome.value
    /\ dispatched' = Append(dispatched, [round |-> round, idx |-> idx,
                                         name |-> CurrentBlock.name,
                                         outcome |-> DispatchOutcome])
    /\ LET ev == ToolResult(CurrentBlock.name, DispatchOutcome.value)
       IN /\ events' = Append(events, ev)
          /\ wire' = Append(wire, ToolResultRecord(uuid + UuidsDrawn + 1, ev))
    /\ uuid' = uuid + UuidsDrawn + 1
    /\ pc' = "yield_result"
    /\ mock_data' = MockDataAfter(CurrentBlock.name, CurrentBlock.input, mock_data)
    /\ UNCHANGED <<env, conversation_history, rounds, budget, messages, messages0, response, has_tool_use, idx, abandoned,
                   round, calls>>

\* agent.py 150-155, main.py 69-76: the dispatch returns
DispatchReturns ==
    /\ pc = "yield_start" /\ ~abandoned
    /\ DispatchOutcome.kind = "return"
    /\ result' = DispatchOutcome.value
    /\ dispatched' = Append(dispatched, [round |-> round, idx |-> idx,
                                         name |-> CurrentBlock.name,
                                         outcome |-> DispatchOutcome])
    /\ LET ev == ToolResult(CurrentBlock.name, DispatchOutcome.value)
       IN /\ events' = Append(events, ev)
          /\ wire' = Append(wire, ToolResultRecord(uuid + UuidsDrawn + 1, ev))
    /\ uuid' = uuid + UuidsDrawn + 1
    /\ pc' = "yield_result"
    /\ mock_data' = MockDataAfter(CurrentBlock.name, CurrentBlock.input, mock_data)
    /\ UNCHANGED <<env, conversation_history, rounds, budget, messages, messages0, response, has_tool_use, idx, abandoned,
                   round, calls>>

\* agent.py 150 raises; main.py 83-86 catches and writes the error text
DispatchRaises ==
    /\ pc = "yield_start" /\ ~abandoned
    /\ DispatchOutcome.kind = "raise"
    /\ dispatched' = Append(dispatched, [round |-> round, idx |-> idx,
                                         name |-> CurrentBlock.name,
                                         outcome |-> DispatchOutcome])
    /\ wire' = Append(wire, ErrorText(DispatchOutcome.exc))
    /\ pc' = "err_0"
    /\ UNCHANGED <<env, conversation_history, mock_data, rounds, budget, messages, messages0, response, has_tool_use, idx, result,
                   events, abandoned, round, uuid, calls>>

\* agent.py 157-170, after the consumer asks for the next event
AppendEntries ==
    /\ pc = "yield_result" /\ ~abandoned
    /\ messages' = AppendedMessages(messages, response.content, CurrentBlock, result)
    /\ conversation_history' = CallersListAfter(conversation_history, messages')
    /\ idx' = idx + 1
    /\ pc' = "block"
    /\ UNCHANGED <<env, mock_data, rounds, budget, messages0, response, has_tool_use, result, events, wire,
                   abandoned, round, uuid, calls, dispatched>>

\* a variant of EndRoundStop that keeps the final response in the conversation
EndRoundStopAppendsResponse ==
    /\ pc = "block" /\ ~abandoned /\ LoopDone(idx, response.content)
    /\ ShouldStop(response.stop_reason, has_tool_use)
    /\ events' = Append(events, MessageDone)
    /\ wire' = Append(wire, StopPair[1])
    /\ messages' = Append(messages, Message("assistant", response.content))
    /\ pc' = "wrote_e"
    /\ UNCHANGED <<env, conversation_history, mock_data, rounds, budget, messages0, response,
                   has_tool_use, idx, result, abandoned, round, uuid, calls,
                   dispatched>>

\* agent.py 172-173, main.py 78-80
EndRoundStop ==
    /\ pc = "block" /\ ~abandoned /\ LoopDone(idx, response.content)
    /\ ShouldStop(response.stop_reason, has_tool_use)
    /\ events' = Append(events, MessageDone)
    /\ wire' = Append(wire, StopPair[1])
    /\ pc' = "wrote_e"
    /\ UNCHANGED <<env, conversation_history, mock_data, rounds, budget, messages, messages0, response, has_tool_use, idx, result,
                   abandoned, round, uuid, calls, dispatched>>

\* agent.py 172 is false: back to line 127
EndRoundContinue ==
    /\ pc = "block" /\ ~abandoned /\ LoopDone(idx, response.content)
    /\ ~ShouldStop(response.stop_reason, has_tool_use)
    /\ pc' = "call_model"
    /\ UNCHANGED <<env, conversation_history, mock_data, rounds, budget, messages, messages0, response, has_tool_use, idx, result,
                   events, wire, abandoned, round, uuid, calls, dispatched>>

\* main.py 81
WriteDone ==
    /\ pc = "wrote_e" /\ ~abandoned
    /\ wire' = Append(wire, StopPair[2])
    /\ pc' = "wrote_d"
    /\ UNCHANGED <<env, conversation_history, mock_data, rounds, budget, messages, messages0, response, has_tool_use, idx, result,
                   events, abandoned, round, uuid, calls, dispatched>>

\* agent.py 174: break; both generators end
Finish ==
    /\ pc = "wrote_d" /\ ~abandoned
    /\ pc' = "done"
    /\ UNCHANGED <<env, conversation_history, mock_data, rounds, budget, messages, messages0, response, has_tool_use, idx, result,
                   events, wire, abandoned, round, uuid, calls, dispatched>>

\* main.py 87
ErrorWriteE ==
    /\ pc = "err_0" /\ ~abandoned
    /\ wire' = Append(wire, ErrorPair[1])
    /\ pc' = "err_e"
    /\ UNCHANGED <<env, conversation_history, mock_data, rounds, budget, messages, messages0, response, has_tool_use, idx, result,
                   events, abandoned, round, uuid, calls, dispatched>>

\* main.py 88
ErrorWriteD ==
    /\ pc = "err_e" /\ ~abandoned
    /\ wire' = Append(wire, ErrorPair[2])
    /\ pc' = "err_d"
    /\ UNCHANGED <<env, conversation_history, mock_data, rounds, budget, messages, messages0, response, has_tool_use, idx, result,
                   events, abandoned, round, uuid, calls, dispatched>>

\* the except block ends; _stream_response is exhausted
ErrorFinish ==
    /\ pc = "err_d" /\ ~abandoned
    /\ pc' = "failed"
    /\ UNCHANGED <<env, conversation_history, mock_data, rounds, budget, messages, messages0, response, has_tool_use, idx, result,
                   events, wire, abandoned, round, uuid, calls, dispatched>>

\* places where the generators are suspended with a record handed out, or
\* not started yet
Suspended ==
    \/ pc \in {"yield_text", "yield_start", "yield_result", "wrote_e", "wrote_d",
               "err_0", "err_e", "err_d"}
    \/ (pc = "call_model" /\ round = 0)

\* the remote client stops reading: nothing asks the generators to go on
Abandon ==
    /\ Suspended /\ ~abandoned
    /\ abandoned' = TRUE
    /\ UNCHANGED <<env, conversation_history, mock_data, rounds, budget, messages, messages0, response, has_tool_use, idx, result,
                   events, wire, pc, round, uuid, calls, dispatched>>

Next ==
    \/ ModelReturns
    \/ ModelRaises
    \/ EmitText
    \/ ResumeText
    \/ EmitToolCallStart
    \/ DispatchReturns
    \/ DispatchRaises
    \/ AppendEntries
    \/ EndRoundStop
    \/ EndRoundContinue
    \/ WriteDone
    \/ Finish
    \/ ErrorWriteE
    \/ ErrorWriteD
    \/ ErrorFinish
    \/ Abandon

Spec == Init /\ [][Next]_vars

(***************************************************************************)
(* A second chat request processed while this one runs.  chat() builds a   *)
(* list of its own for every request and hands it to the loop, which       *)
(* appends to the list it was given.                                       *)
(***************************************************************************)
\* a variant of RequestsShareList for a chat() that hands every request the
\* same list
RequestsShareOneList == TRUE

\* main.py 104: anthropic_messages = [] is a new list in every call of chat()
RequestsShareList == FALSE

\* the tool-use block of the other run's n-th round; round 0 is no round of
\* this run, so the ids differ from every id of this run
OtherBlock(n) == ToolUseBlock(<<0, n>>, "get_account_context", EmptyInput)

OtherRounds == (Len(other) - Len(OtherRequest)) \div 2

\* agent.py 158-170 in the other run: the two entries of one tool call go to
\* the list that run was given
OtherRunAppends ==
    /\ OtherRounds < MaxOtherCalls
    /\ LET block == OtherBlock(OtherRounds + 1)
           res == handle_tool_call(block.name, block.input, 0).value
       IN IF RequestsShareList
          THEN /\ messages' = AppendedMessages(messages, <<block>>, block, res)
               /\ other' = other
          ELSE /\ other' = AppendedMessages(other, <<block>>, block, res)
               /\ messages' = messages
    /\ UNCHANGED <<messages0, response, has_tool_use, idx, result, events,
                   wire, pc, abandoned, round, uuid, budget, calls, rounds,
                   dispatched, conversations, mock_data, dlog,
                   conversation_history, user_message, text_parts, collected,
                   returned>>

NextConcurrent ==
    \/ Next
    \/ OtherRunAppends

SpecConcurrent == Init /\ [][NextConcurrent]_vars

(***************************************************************************)
(* handle_tool_call on its own: a sequence of dispatches, each applied to  *)
(* a call drawn from DispatchCalls, with the files and the uuid source the *)
(* calls before it left behind.                                            *)
(***************************************************************************)
BaseFilters ==
    {[type |-> t] : t \in {"no_purchase", "all_subscribers"}} \cup
    {[type |-> t, days |-> 90] : t \in {"no_purchase", "all_subscribers"}} \cup
    {[type |-> t, list_id |-> "l1"] :
        t \in {"no_purchase", "all_subscribers", "list_members"}} \cup
    {EmptyInput}

SegmentationAxes == {"ltv", "engagement"}

CampaignDraftInput ==
    [name |-> "n", channel |-> "email", cohort |-> "c", audience_size |-> 1,
     content |-> "x", schedule |-> "s"]

DispatchCalls ==
    {[name |-> "segment_contacts",
      input |-> [base_filter |-> f, segmentation_axis |-> a]] :
        f \in BaseFilters, a \in SegmentationAxes} \cup
    {[name |-> "segment_contacts", input |-> [segmentation_axis |-> "ltv"]],
     [name |-> "get_campaign_history", input |-> EmptyInput],
     [name |-> "get_campaign_history", input |-> [limit |-> 10]],
     [name |-> "get_campaign_history", input |-> [limit |-> 2]],
     [name |-> "get_campaign_performance", input |-> EmptyInput],
     [name |-> "get_campaign_performance", input |-> [period |-> "last_30d"]],
     [name |-> "get_campaign_performance", input |-> [period |-> "last_7d"]],
     [name |-> "get_account_context", input |-> EmptyInput],
     [name |-> "get_active_automations", input |-> EmptyInput],
     [name |-> "create_campaign_draft", input |-> CampaignDraftInput],
     [name |-> "create_campaign_draft", input |-> [name |-> "n"]],
     [name |-> "frobnicate", input |-> EmptyInput]}

\* tools.py 262-267, called once with the call c
DispatchOf(c) ==
    LET outcome == handle_tool_call(c.name, c.input, uuid + 1)
    IN /\ dlog' = Append(dlog, [name |-> c.name, input |-> c.input,
                                outcome |-> outcome])
       /\ uuid' = IF DrawsUuid(c.name) /\ outcome.kind = "return"
                  THEN uuid + 1 ELSE uuid
       /\ mock_data' = MockDataAfter(c.name, c.input, mock_data)

Dispatch ==
    /\ Len(dlog) < MaxDispatches
    /\ \E c \in DispatchCalls : DispatchOf(c)
    /\ UNCHANGED <<messages, messages0, response, has_tool_use, idx, result,
                   events, wire, pc, abandoned, round, budget, calls, rounds,
                   dispatched, conversations, other, conversation_history,
                   user_message, text_parts, collected, returned>>

DispatchSpec == Init /\ [][Dispatch]_vars

(***************************************************************************)
(* agent.py, run_agent_sync: the loop run to its end on a copy of the      *)
(* caller's history with one user message added, by a collector that keeps *)
(* the content of every text_delta.  The loop is the one of                *)
(* run_agent_stream; the records its actions add to wire are those the     *)
(* adapter would write, and the collector does not read them.              *)
(***************************************************************************)
\* the caller's history: None and the empty list both give an empty copy
\* (conversation_history or [])
SyncHistories ==
    {[i \in 1..n |-> Message(IF i % 2 = 1 THEN "user" ELSE "assistant",
                             <<TextBlock("m")>>)] : n \in {0, MaxHistory}}

UserMessages == {"u"}

\* agent.py 181-182
SyncMsgs(history, text) == history \o <<Message("user", <<TextBlock(text)>>)>>

\* "".join(text_parts)
RECURSIVE Join(_)
Join(parts) == IF parts = <<>> THEN "" ELSE Head(parts) \o Join(Tail(parts))

SyncInit ==
    /\ conversation_history \in SyncHistories
    /\ user_message \in UserMessages
    /\ messages0 = SyncMsgs(conversation_history, user_message)
    /\ messages = messages0
    /\ text_parts = <<>>
    /\ collected = 0
    /\ returned = NoReturn
    /\ response = NoResponse
    /\ has_tool_use = FALSE
    /\ idx = 1
    /\ result = NoResult
    /\ events = <<>>
    /\ wire = <<>>
    /\ pc = "call_model"
    /\ abandoned = FALSE
    /\ round = 0
    /\ uuid = 0
    /\ budget = MaxBlocks
    /\ calls = <<>>
    /\ rounds = <<>>
    /\ dispatched = <<>>
    /\ conversations = [id \in {} |-> <<>>]
    /\ other = OtherRequest
    /\ mock_data = [i \in 1..NumCampaigns |-> i]
    /\ dlog = <<>>

\* agent.py 187-189: the body of the async for, for the next event
Collect ==
    /\ collected < Len(events)
    /\ LET event == events[collected + 1]
       IN text_parts' = IF event.type = "text_delta"
                        THEN Append(text_parts, event.content)
                        ELSE text_parts
    /\ collected' = collected + 1
    /\ UNCHANGED <<messages, messages0, response, has_tool_use, idx, result,
                   events, wire, pc, abandoned, round, uuid, budget, calls,
                   rounds, dispatched, conversations, other, mock_data, dlog,
                   conversation_history, user_message, returned>>

\* agent.py 174 and 191-192: the generator ends after message_done, and the
\* call returns the joined text
SyncReturns ==
    /\ pc = "wrote_e" /\ collected = Len(events)
    /\ returned' = [kind |-> "return", value |-> Join(text_parts)]
    /\ pc' = "done"
    /\ UNCHANGED <<messages, messages0, response, has_tool_use, idx, result,
                   events, wire, abandoned, round, uuid, budget, calls,
                   rounds, dispatched, conversations, other, mock_data, dlog,
                   conversation_history, user_message, text_parts, collected>>

\* agent.py 191: no except around the loop, the failure leaves asyncio.run
SyncRaises ==
    /\ pc = "err_0" /\ collected = Len(events)
    /\ returned' = [kind |-> "raise"]
    /\ pc' = "failed"
    /\ UNCHANGED <<messages, messages0, response, has_tool_use, idx, result,
                   events, wire, abandoned, round, uuid, budget, calls,
                   rounds, dispatched, conversations, other, mock_data, dlog,
                   conversation_history, user_message, text_parts, collected>>

SyncNext ==
    \/ ModelReturns
    \/ ModelRaises
    \/ EmitText
    \/ ResumeText
    \/ EmitToolCallStart
    \/ DispatchReturns
    \/ DispatchRaises
    \/ AppendEntries
    \/ EndRoundStop
    \/ EndRoundContinue
    \/ Collect
    \/ SyncReturns
    \/ SyncRaises

SyncSpec == SyncInit /\ [][SyncNext]_vars

(***************************************************************************)
(* Helpers of the properties.                                              *)
(***************************************************************************)
EventsOfType(t) == {i \in DOMAIN events : events[i].type = t}

WireWithTag(t) == {i \in DOMAIN wire : wire[i].tag = t}

NumToolUse(content) ==
    Cardinality({i \in DOMAIN content : content[i].type = "tool_use"})

\* the generator run_agent_stream has ended, by returning or by raising
AgentReturned == pc = "done"
AgentRaised == pc \in {"err_0", "err_e", "err_d", "failed"}

\* _stream_response has ended with its consumer still reading
StreamEnded == pc \in {"done", "failed"}

\* the loop stands inside the for loop of the last response returned
InRound == pc \in {"block", "yield_text", "yield_start", "yield_result"}

(***************************************************************************)
(* C1.  Every run of the agent loop, whether or not a model call or a tool *)
(* dispatch fails, emits exactly one MessageDone, and it is the last       *)
(* event: there is never a second one, nothing follows it, and a run that  *)
(* has ended has emitted it.                                               *)
(***************************************************************************)
C1_ExactlyOneMessageDoneLast ==
    /\ Cardinality(EventsOfType("message_done")) <= 1
    /\ \A i \in EventsOfType("message_done") : i = Len(events)
    /\ (AgentReturned \/ AgentRaised) =>
          Cardinality(EventsOfType("message_done")) = 1

(***************************************************************************)
(* C3.  Every ToolCallStart event is immediately followed by the           *)
(* ToolResult of the same call (same tool, the result of dispatching the   *)
(* call's input); while it is the last event the only thing in progress is *)
(* that call's dispatch.                                                   *)
(***************************************************************************)
C3_StartFollowedByResult ==
    \A i \in EventsOfType("tool_call_start") :
       LET k == Cardinality({j \in EventsOfType("tool_call_start") : j <= i})
       IN IF i = Len(events)
          THEN pc = "yield_start"
          ELSE /\ events[i + 1].type = "tool_result"
               /\ events[i + 1].tool = events[i].tool
               /\ k <= Len(dispatched)
               /\ dispatched[k].outcome = Returned(events[i + 1].result)

(***************************************************************************)
(* C4.  Tool dispatch never raises: whatever tool-use block the loop       *)
(* dispatches, handle_tool_call returns a value, so no run is ended by a   *)
(* dispatch.                                                               *)
(***************************************************************************)
C4_DispatchNeverRaises ==
    /\ pc = "yield_start" => DispatchOutcome.kind = "return"
    /\ \A k \in DOMAIN dispatched : dispatched[k].outcome.kind = "return"

(***************************************************************************)
(* C2.  A wire stream read to its end closes with exactly one terminal     *)
(* pair: one e record immediately followed by one d record with the same   *)
(* finish reason ("stop" after a normal run, "error" after a failure       *)
(* raised while the agent events were consumed), nothing after the d       *)
(* record, and no other e or d record anywhere in the stream.              *)
(***************************************************************************)
C2_TerminalPair ==
    /\ \A i \in WireWithTag("d") :
          /\ i = Len(wire) /\ i > 1
          /\ wire[i - 1].tag = "e"
          /\ wire[i - 1].finishReason = wire[i].finishReason
          /\ wire[i].finishReason \in {"stop", "error"}
    /\ \A i \in WireWithTag("e") :
          /\ i >= Len(wire) - 1
          /\ i = Len(wire) - 1 => wire[Len(wire)].tag = "d"
          /\ i = Len(wire) => pc \in {"wrote_e", "err_e"}
    /\ StreamEnded =>
          /\ Len(wire) >= 2
          /\ wire[Len(wire)].tag = "d"
          /\ wire[Len(wire)].finishReason = IF pc = "done" THEN "stop" ELSE "error"

\* a stream that ended after a failure in the middle of a run
C2_Witness ==
    /\ pc = "failed"
    /\ events # <<>>
    /\ Cardinality(WireWithTag("e")) = 1 /\ Cardinality(WireWithTag("d")) = 1

(***************************************************************************)
(* C5.  Dispatching an unregistered tool name returns                      *)
(* {error: "Unknown tool: <name>"} without raising, and the loop treats it *)
(* as any tool result: ToolCallStart then ToolResult carrying the error,   *)
(* the assistant message and the tool-result message appended, the round   *)
(* marked as having tool use, and after the round the loop goes on to the  *)
(* next model call unless the stop reason is "end_turn".                   *)
(***************************************************************************)
UnknownToolError(name) == [error |-> "Unknown tool: " \o name]

IsUnknownToolUse(block) ==
    block.type = "tool_use" /\ block.name \notin HandlerNames

C5_State ==
    /\ \A k \in DOMAIN dispatched :
          dispatched[k].name \notin HandlerNames =>
             dispatched[k].outcome = Returned(UnknownToolError(dispatched[k].name))
    /\ (pc = "yield_start" /\ IsUnknownToolUse(CurrentBlock)) =>
          DispatchOutcome = Returned(UnknownToolError(CurrentBlock.name))
    /\ (pc = "yield_result" /\ IsUnknownToolUse(CurrentBlock)) =>
          /\ Len(events) >= 2
          /\ events[Len(events) - 1] =
                ToolCallStart(CurrentBlock.name, CurrentBlock.input)
          /\ events[Len(events)] =
                ToolResult(CurrentBlock.name, UnknownToolError(CurrentBlock.name))
    /\ (pc = "block" /\ idx > 1 /\ IsUnknownToolUse(response.content[idx - 1])) =>
          LET block == response.content[idx - 1]
              n == Len(messages)
          IN /\ n >= Len(messages0) + 2
             /\ messages[n - 1] = Message("assistant", response.content)
             /\ messages[n] =
                   Message("user",
                           <<ToolResultBlock(block.id,
                                             json_dumps(UnknownToolError(block.name)))>>)
             /\ has_tool_use

C5_Step ==
    (/\ pc = "block" /\ idx > Len(response.content)
     /\ \E i \in DOMAIN response.content : IsUnknownToolUse(response.content[i])
     /\ response.stop_reason # "end_turn")
    => (pc' = "call_model" /\ events' = events /\ wire' = wire)

C5_UnknownToolIsNormalResult == []C5_State /\ [][C5_Step]_vars

\* a second model call was made after a round that dispatched an unknown tool
C5_Witness ==
    /\ Len(calls) >= 2
    /\ \E k \in DOMAIN dispatched :
          dispatched[k].name = "frobnicate" /\ dispatched[k].round = 1

(***************************************************************************)
(* C6.  Every tool call that was executed appends exactly two entries to   *)
(* the conversation: the assistant message with the full content of the    *)
(* round's response, then a user message whose content is one ToolResult   *)
(* block with the JSON text of the tool output and the id of the call.     *)
(* The conversation is its initial value followed by these pairs, so its   *)
(* length is the initial length plus twice the number of tool calls        *)
(* executed (the pair of the ToolResult the loop is suspended at is        *)
(* appended when the loop is resumed).                                     *)
(***************************************************************************)
PairsAppended ==
    Cardinality(EventsOfType("tool_result")) - (IF pc = "yield_result" THEN 1 ELSE 0)

C6_TwoEntriesPerToolCall ==
    /\ Len(messages) = Len(messages0) + 2 * PairsAppended
    /\ SubSeq(messages, 1, Len(messages0)) = messages0
    /\ PairsAppended <= Len(dispatched)
    /\ \A k \in 1..PairsAppended :
          LET d == dispatched[k]
              content == rounds[d.round].content
          IN /\ d.outcome.kind = "return"
             /\ messages[Len(messages0) + 2 * k - 1] = Message("assistant", content)
             /\ messages[Len(messages0) + 2 * k] =
                   Message("user", <<ToolResultBlock(content[d.idx].id,
                                                     json_dumps(d.outcome.value))>>)

\* a run that ended normally after a round with two tool calls
C6_Witness ==
    /\ pc = "done"
    /\ \E j, k \in DOMAIN dispatched :
          j < k /\ dispatched[j].round = dispatched[k].round
    /\ Len(messages) = Len(messages0) + 2 * Len(dispatched)

(***************************************************************************)
(* C7.  Every conversation message that carries a ToolResult block is a    *)
(* user message placed directly after an assistant message that contains   *)
(* a ToolUse block with the id the ToolResult names.                       *)
(***************************************************************************)
C7_ToolResultFollowsItsRequest ==
    \A i \in DOMAIN messages :
       \A j \in DOMAIN messages[i].content :
          messages[i].content[j].type = "tool_result" =>
             /\ messages[i].role = "user"
             /\ i > 1
             /\ messages[i - 1].role = "assistant"
             /\ \E b \in DOMAIN messages[i - 1].content :
                   /\ messages[i - 1].content[b].type = "tool_use"
                   /\ messages[i - 1].content[b].id =
                         messages[i].content[j].tool_use_id

\* the tool result of the second tool call of a round is in the conversation
C7_Witness ==
    \E i \in DOMAIN messages :
       /\ messages[i].content[1].type = "tool_result"
       /\ i > 1
       /\ Len(messages[i - 1].content) >= 2
       /\ messages[i - 1].content[2].type = "tool_use"
       /\ messages[i - 1].content[2].id = messages[i].content[1].tool_use_id

(***************************************************************************)
(* C8.  When all blocks of a round have been processed, the loop stops     *)
(* (emits MessageDone, and no model call is made afterwards) exactly when  *)
(* the stop reason is "end_turn" or the response held no tool-use block;   *)
(* otherwise it goes to another model call, and that call is passed the    *)
(* conversation as the round left it.                                      *)
(***************************************************************************)
RoundProcessed == pc = "block" /\ idx > Len(response.content)

StopCondition ==
    response.stop_reason = "end_turn" \/ NumToolUse(response.content) = 0

LastToolUse(content) ==
    content[CHOOSE i \in DOMAIN content :
               /\ content[i].type = "tool_use"
               /\ \A j \in DOMAIN content : content[j].type = "tool_use" => j <= i]

C8_Step ==
    RoundProcessed =>
       IF StopCondition
       THEN /\ events' = Append(events, MessageDone)
            /\ pc' = "wrote_e"
            /\ round' = round
       ELSE /\ pc' = "call_model"
            /\ events' = events
            /\ messages' = messages

C8_NoCallAfterDone ==
    EventsOfType("message_done") # {} => (round' = round /\ calls' = calls)

C8_NextCallSeesRound ==
    /\ \A k \in DOMAIN calls : k >= 2 =>
          LET content == rounds[k - 1].content
              n == Len(calls[k])
          IN /\ rounds[k - 1].stop_reason # "end_turn"
             /\ NumToolUse(content) > 0
             /\ n = Len(calls[k - 1]) + 2 * NumToolUse(content)
             /\ SubSeq(calls[k], 1, Len(calls[k - 1])) = calls[k - 1]
             /\ calls[k][n - 1] = Message("assistant", content)
             /\ calls[k][n].content[1].tool_use_id = LastToolUse(content).id
    /\ (pc = "call_model" /\ round >= 1) =>
          (~StopCondition /\ EventsOfType("message_done") = {})

C8_StopIffEndTurnOrNoToolUse ==
    /\ []C8_NextCallSeesRound
    /\ [][C8_Step]_vars
    /\ [][C8_NoCallAfterDone]_vars

\* a run that went on after its first round and stopped after a later one
C8_Witness ==
    /\ pc = "done"
    /\ Len(calls) >= 2
    /\ Len(messages) > Len(messages0)

(***************************************************************************)
(* C9.  The loop is sequential: the tool-use blocks of a round are         *)
(* dispatched one after the other, each once, in block order, none         *)
(* skipped; and when a model call starts, every tool-use block of the      *)
(* rounds before it has been dispatched and its two entries are in the     *)
(* conversation passed.  (One model call or one dispatch at a time is how  *)
(* a generator runs: pc stands at one place.)                              *)
(***************************************************************************)
Before(p, q) == p[1] < q[1] \/ (p[1] = q[1] /\ p[2] < q[2])

DispatchedAt(k) == <<dispatched[k].round, dispatched[k].idx>>

\* the tool-use blocks the for loops have got past, the one being
\* dispatched or dispatched last included
ToolUsesReached ==
    {<<r, i>> \in UNION {{r} \X DOMAIN rounds[r].content : r \in DOMAIN rounds} :
        /\ rounds[r].content[i].type = "tool_use"
        /\ \/ r < Len(rounds)
           \/ i < idx
           \/ (i = idx /\ pc \notin {"block", "yield_start"})}

RECURSIVE ToolUsesBefore(_)
ToolUsesBefore(k) ==
    IF k <= 1 THEN 0
    ELSE ToolUsesBefore(k - 1) + NumToolUse(rounds[k - 1].content)

C9_SequentialInBlockOrder ==
    /\ \A j, k \in DOMAIN dispatched : j < k => Before(DispatchedAt(j), DispatchedAt(k))
    /\ {DispatchedAt(k) : k \in DOMAIN dispatched} = ToolUsesReached
    /\ \A k \in DOMAIN calls :
          /\ Len(calls[k]) = Len(messages0) + 2 * ToolUsesBefore(k)
          /\ \A r \in 1..(k - 1) : \A i \in DOMAIN rounds[r].content :
                rounds[r].content[i].type = "tool_use" =>
                   \E d \in DOMAIN dispatched : DispatchedAt(d) = <<r, i>>

\* a model call made after a round whose two tool-use blocks were dispatched
C9_Witness ==
    /\ Len(calls) >= 2
    /\ Len(dispatched) >= 2
    /\ dispatched[1].round = 1 /\ dispatched[2].round = 1
    /\ Len(calls[2]) = Len(messages0) + 4

(***************************************************************************)
(* C10.  The events of each round are exactly the image, in order, of the  *)
(* blocks of its response: one TextDelta per Text block, one ToolCallStart *)
(* followed by one ToolResult per ToolUse block, none dropped, duplicated  *)
(* or reordered; while a round is in progress its events are the image of  *)
(* the blocks processed so far.                                            *)
(***************************************************************************)
RECURSIVE IsImage(_, _)
IsImage(evs, content) ==
    IF content = <<>> THEN evs = <<>>
    ELSE LET b == Head(content)
         IN IF b.type = "text"
            THEN /\ Len(evs) >= 1
                 /\ evs[1] = TextDelta(b.text)
                 /\ IsImage(Tail(evs), Tail(content))
            ELSE /\ Len(evs) >= 2
                 /\ evs[1] = ToolCallStart(b.name, b.input)
                 /\ evs[2].type = "tool_result"
                 /\ evs[2].tool = b.name
                 /\ IsImage(SubSeq(evs, 3, Len(evs)), Tail(content))

RoundEvents(r) ==
    LET last == IF r < Len(rounds) THEN rounds[r + 1].before
                ELSE IF EventsOfType("message_done") # {} THEN Len(events) - 1
                ELSE Len(events)
    IN SubSeq(events, rounds[r].before + 1, last)

C10_EventsAreImageOfBlocks ==
    \A r \in DOMAIN rounds :
       LET content == rounds[r].content
           evs == RoundEvents(r)
       IN IF r < Len(rounds) \/ ~InRound
          THEN IsImage(evs, content)
          ELSE CASE pc = "block" -> IsImage(evs, SubSeq(content, 1, idx - 1))
                 [] pc = "yield_text" -> IsImage(evs, SubSeq(content, 1, idx))
                 [] pc = "yield_result" -> IsImage(evs, SubSeq(content, 1, idx))
                 [] pc = "yield_start" ->
                       /\ evs # <<>>
                       /\ evs[Len(evs)] =
                             ToolCallStart(content[idx].name, content[idx].input)
                       /\ IsImage(SubSeq(evs, 1, Len(evs) - 1),
                                  SubSeq(content, 1, idx - 1))

(***************************************************************************)
(* C11.  The wire records are written in the order of the agent events,    *)
(* one record per event: TextDelta -> 0, ToolCallStart -> 9, ToolResult -> *)
(* a, each carrying the event's payload, and MessageDone -> e then d.  On  *)
(* a run without failure the wire is this image of the events, nothing     *)
(* added, dropped or reordered (the d record is written when the consumer  *)
(* has read the e record).                                                 *)
(***************************************************************************)
IsRecordOf(rec, ev) ==
    CASE ev.type = "text_delta" ->
            rec.tag = "0" /\ rec.text = json_dumps(ev.content)
      [] ev.type = "tool_call_start" ->
            rec.tag = "9" /\ rec.toolName = ev.tool /\ rec.args = ev.input
      [] ev.type = "tool_result" ->
            rec.tag = "a" /\ rec.toolName = ev.tool /\ rec.result = ev.result
      [] ev.type = "message_done" ->
            rec.tag = "e" /\ rec.finishReason = "stop"

\* the records the except block has written so far
ErrorTailLen ==
    CASE pc = "err_0" -> 1
      [] pc = "err_e" -> 2
      [] pc \in {"err_d", "failed"} -> 3
      [] OTHER -> 0

\* the d record that follows the e record of MessageDone, once written
DoneTailLen ==
    IF EventsOfType("message_done") # {} /\ pc # "wrote_e" THEN 1 ELSE 0

C11_WireIsImageOfEvents ==
    /\ Len(wire) = Len(events) + DoneTailLen + ErrorTailLen
    /\ \A i \in DOMAIN events : IsRecordOf(wire[i], events[i])
    /\ DoneTailLen = 1 =>
          /\ wire[Len(events) + 1].tag = "d"
          /\ wire[Len(events) + 1].finishReason = "stop"
    /\ ~AgentRaised => ErrorTailLen = 0

\* a run without failure that wrote every kind of record
C11_Witness ==
    /\ pc = "done"
    /\ \A t \in {"0", "9", "a", "e", "d"} : WireWithTag(t) # {}
    /\ Len(wire) = Len(events) + 1

(***************************************************************************)
(* C12.  When a failure is raised while the agent events are consumed, the *)
(* wire is the records of the events emitted before it, then exactly one 0 *)
(* record with the error annotation, then an e and a d record with finish  *)
(* reason "error", and no "stop" finish record.  A failure of the first    *)
(* model call gives that 0 record and the error pair only: no 9 or a       *)
(* record and no tool dispatch.                                            *)
(***************************************************************************)
ErrorAnnotations ==
    {json_dumps("Error: " \o exc) : exc \in {"BackendError", "KeyError", "TypeError"}}

C12_FailureTail ==
    AgentRaised =>
       LET n == Len(events)
       IN /\ EventsOfType("message_done") = {}
          /\ Len(wire) = n + ErrorTailLen
          /\ \A i \in 1..n : IsRecordOf(wire[i], events[i])
          /\ wire[n + 1].tag = "0" /\ wire[n + 1].text \in ErrorAnnotations
          /\ ErrorTailLen >= 2 => wire[n + 2] = [tag |-> "e", finishReason |-> "error"]
          /\ ErrorTailLen >= 3 => wire[n + 3] = [tag |-> "d", finishReason |-> "error"]
          /\ \A i \in WireWithTag("e") \cup WireWithTag("d") :
                wire[i].finishReason # "stop"
          /\ rounds = <<>> =>
                /\ n = 0
                /\ dispatched = <<>>
                /\ WireWithTag("9") = {} /\ WireWithTag("a") = {}

\* the first model call failed and the stream was read to its end
C12_Witness ==
    /\ pc = "failed"
    /\ rounds = <<>>
    /\ Len(wire) = 3

(***************************************************************************)
(* C13.  Once the consumer has stopped reading the wire stream, at         *)
(* whatever point of the run, the agent loop makes no further model call   *)
(* and no further tool dispatch (and the consumer does not come back).     *)
(***************************************************************************)
C13_Step ==
    abandoned =>
       /\ abandoned'
       /\ round' = round /\ calls' = calls
       /\ dispatched' = dispatched
       /\ messages' = messages

C13_NoWorkAfterAbandon == [][C13_Step]_vars

\* the stream was abandoned with a tool dispatch pending, after a first round
C13_Witness ==
    /\ abandoned
    /\ pc = "yield_start"
    /\ round >= 2

(***************************************************************************)
(* C16.  The conversation is append-only during a run: no step removes,    *)
(* reorders or replaces an entry, so the conversation passed to a model    *)
(* call has the one passed to the previous model call as a prefix.         *)
(***************************************************************************)
IsPrefix(s, t) == Len(s) <= Len(t) /\ SubSeq(t, 1, Len(s)) = s

C16_Step == IsPrefix(messages, messages')

C16_CallsArePrefixes ==
    /\ \A k \in DOMAIN calls : k >= 2 => IsPrefix(calls[k - 1], calls[k])
    /\ \A k \in DOMAIN calls : IsPrefix(calls[k], messages)
    /\ IsPrefix(messages0, messages)

C16_AppendOnly == []C16_CallsArePrefixes /\ [][C16_Step]_vars

\* three model calls, each passed a longer conversation than the one before
C16_Witness ==
    /\ Len(calls) >= 3
    /\ Len(calls[1]) < Len(calls[2]) /\ Len(calls[2]) < Len(calls[3])
    /\ Len(calls[3]) > 4

(***************************************************************************)
(* C17.  There is no round limit: as long as every response holds a        *)
(* tool-use block and a stop reason other than "end_turn", the loop never  *)
(* reaches Done and never emits MessageDone, every processed round is      *)
(* followed by another model call whatever the number of rounds, and each  *)
(* model call is passed a longer conversation than the one before.         *)
(***************************************************************************)
AlwaysToolUse ==
    \A r \in DOMAIN rounds :
       NumToolUse(rounds[r].content) > 0 /\ rounds[r].stop_reason # "end_turn"

C17_State ==
    AlwaysToolUse =>
       /\ EventsOfType("message_done") = {}
       /\ pc \notin {"wrote_e", "wrote_d", "done"}
       /\ \A k \in DOMAIN calls : k >= 2 => Len(calls[k]) > Len(calls[k - 1])
       /\ Len(calls) >= Len(rounds)

C17_Step ==
    (AlwaysToolUse /\ rounds # <<>> /\ pc = "block" /\ idx > Len(response.content))
    => pc' = "call_model"

C17_NoRoundLimit == []C17_State /\ [][C17_Step]_vars

\* the loop is back at the model call after as many rounds as the backend's
\* blocks allow, each of them with a tool call
C17_Witness ==
    /\ AlwaysToolUse
    /\ pc = "call_model"
    /\ Len(rounds) = MaxBlocks
    /\ Len(messages) = Len(messages0) + 2 * MaxBlocks

(***************************************************************************)
(* C18.  A dispatch of get_campaign_history without "limit" has the        *)
(* outcome of the same dispatch with limit 10, which is the first ten      *)
(* campaigns; a dispatch of get_campaign_performance without "period" has  *)
(* the outcome of the same dispatch with period "last_30d".                *)
(***************************************************************************)
WithField(input, k, v) ==
    [x \in DOMAIN input \cup {k} |-> IF x = k THEN v ELSE input[x]]

C18_DefaultsApplied ==
    \A k \in DOMAIN dlog :
       /\ (dlog[k].name = "get_campaign_history" /\ ~Has(dlog[k].input, "limit"))
          => /\ dlog[k].outcome =
                   handle_tool_call("get_campaign_history",
                                    WithField(dlog[k].input, "limit", 10), 0)
             /\ dlog[k].outcome.kind = "return"
             /\ Len(dlog[k].outcome.value.campaigns) = Min(10, NumCampaigns)
       /\ (dlog[k].name = "get_campaign_performance"
              /\ ~Has(dlog[k].input, "period"))
          => dlog[k].outcome =
                handle_tool_call("get_campaign_performance",
                                 WithField(dlog[k].input, "period", "last_30d"),
                                 0)

\* both tools were dispatched without their optional field, and the history
\* holds more campaigns than the default returns
C18_Witness ==
    /\ \E k \in DOMAIN dlog :
          /\ dlog[k].name = "get_campaign_history"
          /\ dlog[k].input = EmptyInput
          /\ Len(dlog[k].outcome.value.campaigns) = 10
    /\ \E k \in DOMAIN dlog :
          dlog[k].name = "get_campaign_performance" /\ dlog[k].input = EmptyInput
    /\ Len(mock_data) > 10

(***************************************************************************)
(* C19.  A dispatch of segment_contacts that is given a base_filter        *)
(* returns the no_purchase_90d data when base_filter.type is               *)
(* "no_purchase" and the all_customers data otherwise (another type, or no *)
(* type), whatever the segmentation axis and the other fields of the       *)
(* filter are.                                                             *)
(***************************************************************************)
C19_OnlyTypeSelects ==
    \A k \in DOMAIN dlog :
       (dlog[k].name = "segment_contacts" /\ Has(dlog[k].input, "base_filter"))
       => /\ dlog[k].outcome.kind = "return"
          /\ dlog[k].outcome.value.file = "segmentation.json"
          /\ dlog[k].outcome.value.key =
               IF /\ Has(dlog[k].input.base_filter, "type")
                  /\ dlog[k].input.base_filter.type = "no_purchase"
               THEN "no_purchase_90d"
               ELSE "all_customers"

\* three dispatches with type "no_purchase" under two axes and with and
\* without days, or the same with another type
C19_Witness ==
    /\ Len(dlog) = 3
    /\ \A k \in DOMAIN dlog :
          /\ dlog[k].name = "segment_contacts"
          /\ Has(dlog[k].input, "base_filter")
    /\ dlog[1].input.base_filter = [type |-> "no_purchase", days |-> 90]
    /\ dlog[1].input.segmentation_axis = "engagement"
    /\ dlog[2].input.base_filter = [type |-> "no_purchase"]
    /\ dlog[2].input.segmentation_axis = "ltv"
    /\ dlog[3].input.base_filter = [type |-> "list_members", list_id |-> "l1"]
    /\ dlog[1].outcome = dlog[2].outcome
    /\ dlog[3].outcome # dlog[1].outcome

(***************************************************************************)
(* C20.  The read-only tools are pure: two dispatches of the same          *)
(* read-only tool with the same input have the same outcome, whatever was  *)
(* dispatched before and between them, and no dispatch changes the mock    *)
(* data.                                                                   *)
(***************************************************************************)
ReadOnlyTools ==
    {"get_account_context", "get_campaign_history", "get_active_automations",
     "segment_contacts", "get_campaign_performance"}

C20_State ==
    \A j, k \in DOMAIN dlog :
       (/\ dlog[j].name \in ReadOnlyTools
        /\ dlog[j].name = dlog[k].name
        /\ DOMAIN dlog[j].input = DOMAIN dlog[k].input
        /\ dlog[j].input = dlog[k].input)
       => dlog[j].outcome = dlog[k].outcome

C20_Step == mock_data' = mock_data

C20_ReadOnlyToolsArePure == []C20_State /\ [][C20_Step]_vars

\* the campaign history was read in full after a dispatch that read two
\* campaigns and one that created a draft
C20_Witness ==
    /\ Len(dlog) = 3
    /\ dlog[1].name = "get_campaign_history" /\ dlog[1].input = EmptyInput
    /\ dlog[2].name = "get_campaign_history" /\ Has(dlog[2].input, "limit")
    /\ dlog[2].input.limit = 2
    /\ dlog[3].name = "get_campaign_history" /\ dlog[3].input = EmptyInput
    /\ Len(dlog[3].outcome.value.campaigns) = 10

(***************************************************************************)
(* C14.  After a chat request has run to its end, the conversation store   *)
(* holds under some conversation id a history that contains every message  *)
(* of the request and every entry the loop appended during it.             *)
(***************************************************************************)
C14_StoreKeepsHistory ==
    pc = "done" =>
       \E X \in DOMAIN conversations :
          \A i \in DOMAIN messages :
             \E j \in DOMAIN conversations[X] : conversations[X][j] = messages[i]

(***************************************************************************)
(* C15.  With another request processed at the same time under any         *)
(* interleaving, the conversation of each run holds its request's messages *)
(* and the entries of its own tool calls only: no model call of this run   *)
(* is passed a message of the other run, the other run's list holds no     *)
(* message of this run, and no step of one run changes the list of the     *)
(* other.                                                                  *)
(***************************************************************************)
OfOtherRun(msg) ==
    \/ msg \in {OtherRequest[i] : i \in DOMAIN OtherRequest}
    \/ \E j \in DOMAIN msg.content :
          \/ /\ msg.content[j].type = "tool_use"
             /\ msg.content[j].id[1] = 0
          \/ /\ msg.content[j].type = "tool_result"
             /\ msg.content[j].tool_use_id[1] = 0

C15_State ==
    /\ \A k \in DOMAIN calls :
          \A i \in DOMAIN calls[k] : ~OfOtherRun(calls[k][i])
    /\ \A i \in DOMAIN messages : ~OfOtherRun(messages[i])
    /\ \A i \in DOMAIN other : OfOtherRun(other[i])
    /\ Len(messages) = Len(messages0) + 2 * PairsAppended
    /\ Len(other) = Len(OtherRequest) + 2 * OtherRounds

C15_Step ==
    /\ (other' # other) => (messages' = messages /\ IsPrefix(other, other'))
    /\ (messages' # messages) => (other' = other /\ IsPrefix(messages, messages'))

C15_RunsAreIsolated == []C15_State /\ [][C15_Step]_vars

\* both runs appended the entries of tool calls, the other run before and
\* after this run's, and this run made a model call afterwards
C15_Witness ==
    /\ OtherRounds = MaxOtherCalls
    /\ Len(messages) >= Len(messages0) + 4
    /\ Len(calls) >= 3
    /\ Len(calls[Len(calls)]) = Len(messages)

(***************************************************************************)
(* C21.  On the wire every "a" record comes immediately after the "9"      *)
(* record of the same call and carries the same toolCallId, and the        *)
(* toolCallIds of different "9" records differ.                            *)
(***************************************************************************)
C21_ToolCallIdIdentifiesCall ==
    /\ \A i \in WireWithTag("a") :
          /\ i > 1
          /\ wire[i - 1].tag = "9"
          /\ wire[i].toolCallId = wire[i - 1].toolCallId
    /\ \A i, j \in WireWithTag("9") :
          i # j => wire[i].toolCallId # wire[j].toolCallId

(***************************************************************************)
(* C22.  Every conversation passed to a model call is well-paired: each    *)
(* tool-use block of each assistant message has a tool-result block with   *)
(* its id in the user message that comes immediately after that message.   *)
(***************************************************************************)
WellPaired(conv) ==
    \A i \in DOMAIN conv :
       conv[i].role = "assistant" =>
          \A j \in DOMAIN conv[i].content :
             conv[i].content[j].type = "tool_use" =>
                /\ i < Len(conv)
                /\ conv[i + 1].role = "user"
                /\ \E m \in DOMAIN conv[i + 1].content :
                      /\ conv[i + 1].content[m].type = "tool_result"
                      /\ conv[i + 1].content[m].tool_use_id =
                            conv[i].content[j].id

C22_ModelCallsAreWellPaired == \A k \in DOMAIN calls : WellPaired(calls[k])

(***************************************************************************)
(* C23.  When a run has ended with MessageDone, every tool result it       *)
(* emitted was passed to a model call of the run: some model call received *)
(* a conversation that holds the tool-result message of that call.         *)
(***************************************************************************)
ReportedToModel(d) ==
    \E c \in DOMAIN calls :
       \E i \in DOMAIN calls[c] :
          /\ calls[c][i].role = "user"
          /\ calls[c][i].content[1].type = "tool_result"
          /\ calls[c][i].content[1].tool_use_id = <<d.round, d.idx>>
          /\ calls[c][i].content[1].content = json_dumps(d.outcome.value)

C23_ToolResultsReachTheModel ==
    pc = "done" =>
       \A k \in DOMAIN dispatched :
          dispatched[k].outcome.kind = "return" => ReportedToModel(dispatched[k])

(***************************************************************************)
(* C24.  A round whose response holds no tool-use block leaves the         *)
(* conversation unchanged: no step of such a round changes it, its text    *)
(* blocks are emitted as TextDelta events, and a run that ends after it    *)
(* leaves the conversation as the last model call received it, which is    *)
(* the conversation the run started with when the run made no tool call.   *)
(***************************************************************************)
TextOnlyRound == round >= 1 /\ rounds # <<>> /\ NumToolUse(response.content) = 0

C24_Step == (TextOnlyRound /\ pc \in {"block", "yield_text"}) => messages' = messages

C24_State ==
    (TextOnlyRound /\ pc \in {"wrote_e", "wrote_d", "done"}) =>
       /\ messages = calls[Len(calls)]
       /\ dispatched = <<>> => messages = messages0
       /\ \A i \in DOMAIN messages :
             messages[i].content # response.content \/ i <= Len(messages0)
       /\ Len(events) = rounds[Len(rounds)].before + Len(response.content) + 1
       /\ \A i \in DOMAIN response.content :
             events[rounds[Len(rounds)].before + i] =
                TextDelta(response.content[i].text)

C24_FinalResponseNotAppended == []C24_State /\ [][C24_Step]_vars

\* a run that ended after a single response of two text blocks
C24_Witness ==
    /\ pc = "done"
    /\ Len(rounds) = 1
    /\ Len(response.content) = 2
    /\ NumToolUse(response.content) = 0
    /\ Cardinality(EventsOfType("text_delta")) = 2
    /\ messages = messages0

(***************************************************************************)
(* C25.  run_agent_sync leaves the caller's list as it was, whatever the   *)
(* number of tool calls of the run; the loop runs on that history followed *)
(* by one user message holding user_message; and the value returned is the *)
(* contents of the TextDelta events of the run joined in the order of      *)
(* their emission.                                                         *)
(***************************************************************************)
RECURSIVE TextOfEvents(_)
TextOfEvents(evs) ==
    IF evs = <<>> THEN ""
    ELSE (IF Head(evs).type = "text_delta" THEN Head(evs).content ELSE "")
         \o TextOfEvents(Tail(evs))

CallersHistoryAtCall == SubSeq(messages0, 1, Len(messages0) - 1)

C25_SyncFrameAndResult ==
    /\ conversation_history = CallersHistoryAtCall
    /\ Len(messages0) = Len(conversation_history) + 1
    /\ messages0[Len(messages0)] = Message("user", <<TextBlock(user_message)>>)
    /\ \A k \in DOMAIN calls : IsPrefix(messages0, calls[k])
    /\ calls # <<>> => calls[1] = messages0
    /\ returned.kind = "return" =>
          /\ EventsOfType("message_done") # {}
          /\ returned.value = TextOfEvents(events)
    /\ returned.kind = "none" => pc \notin {"done", "failed"}

\* the call returned the text of two rounds, the first with a text and a
\* tool call, and the caller's list of two messages is as it was
C25_Witness ==
    /\ returned.kind = "return"
    /\ Len(conversation_history) = 2
    /\ Len(messages) > Len(messages0)
    /\ Len(rounds) = 2
    /\ returned.value = TextAt(1, 1) \o TextAt(2, 1)

====
